---- MODULE Spec2Model ----
(***************************************************************************)
(* ko_events.py: scrape the "UPCOMING EVENTS" panel of a rendered page and *)
(* post the parsed list to a Discord webhook.                              *)
(*                                                                         *)
(* Text is modelled as a sequence of characters.  A character is a string: *)
(* an ASCII character stands for itself, any other code point is written   *)
(* "U+XXXX".                                                               *)
(***************************************************************************)
EXTENDS Integers, Sequences, FiniteSets, TLC

(***************************************************************************)
(* Characters                                                              *)
(***************************************************************************)
UPPERS == <<"A","B","C","D","E","F","G","H","I","J","K","L","M",
            "N","O","P","Q","R","S","T","U","V","W","X","Y","Z">>
LOWERS == <<"a","b","c","d","e","f","g","h","i","j","k","l","m",
            "n","o","p","q","r","s","t","u","v","w","x","y","z">>
DIGITS == <<"0","1","2","3","4","5","6","7","8","9">>

Range(f) == {f[i] : i \in DOMAIN f}

IsDigit(c) == c \in Range(DIGITS)

DigitVal(c) == (CHOOSE i \in DOMAIN DIGITS : DIGITS[i] = c) - 1

\* \b of a JavaScript regular expression: [A-Za-z0-9_] is a word character
IsWordChar(c) == c \in Range(UPPERS) \cup Range(LOWERS) \cup Range(DIGITS) \cup {"_"}

\* String.prototype.toLowerCase / the i flag, on one character
ToLowerChar(c) ==
    IF c \in Range(UPPERS)
    THEN LOWERS[CHOOSE i \in DOMAIN UPPERS : UPPERS[i] = c]
    ELSE c

toLowerCase(s) == [i \in DOMAIN s |-> ToLowerChar(s[i])]

BULLET == "U+2022"

\* ECMAScript LineTerminator: what "." of a regular expression does not match
JsLineTerminators == {"\n", "\r", "U+2028", "U+2029"}

\* ECMAScript \s and String.prototype.trim: WhiteSpace and LineTerminator
JsSpace ==
    {"\t", "\n", "U+000B", "\f", "\r", " ", "U+00A0", "U+1680",
     "U+2000", "U+2001", "U+2002", "U+2003", "U+2004", "U+2005", "U+2006",
     "U+2007", "U+2008", "U+2009", "U+200A", "U+2028", "U+2029", "U+202F",
     "U+205F", "U+3000", "U+FEFF"}

\* Python str.strip() with no argument: the characters with str.isspace()
PySpace ==
    {"\t", "\n", "U+000B", "\f", "\r", "U+001C", "U+001D", "U+001E", "U+001F",
     " ", "U+0085", "U+00A0", "U+1680",
     "U+2000", "U+2001", "U+2002", "U+2003", "U+2004", "U+2005", "U+2006",
     "U+2007", "U+2008", "U+2009", "U+200A", "U+2028", "U+2029", "U+202F",
     "U+205F", "U+3000"}

(***************************************************************************)
(* Strings                                                                 *)
(***************************************************************************)
SetMin(S) == CHOOSE x \in S : \A y \in S : x <= y
SetMax(S) == CHOOSE x \in S : \A y \in S : y <= x

\* s without its leading and trailing run of characters of set
StripSet(s, set) ==
    LET keep == {k \in DOMAIN s : s[k] \notin set}
    IN  IF keep = {} THEN <<>> ELSE SubSeq(s, SetMin(keep), SetMax(keep))

\* lit at position i of s, letters compared without case (the i flag)
MatchCI(s, i, lit) ==
    /\ i >= 1
    /\ i + Len(lit) - 1 <= Len(s)
    /\ \A k \in DOMAIN lit : ToLowerChar(s[i + k - 1]) = ToLowerChar(lit[k])

\* the first position from i on that holds no \s character (Len(s)+1 if none)
SkipSpace(s, i) ==
    CHOOSE j \in i..(Len(s) + 1) :
        /\ j = Len(s) + 1 \/ s[j] \notin JsSpace
        /\ \A k \in i..(j - 1) : s[k] \in JsSpace

\* /w1\s+w2/i at position i: the position after the match, 0 if none
TwoWordsEnd(s, i, w1, w2) ==
    IF MatchCI(s, i, w1)
    THEN LET j == SkipSpace(s, i + Len(w1))
         IN  IF j > i + Len(w1) /\ MatchCI(s, j, w2) THEN j + Len(w2) ELSE 0
    ELSE 0

\* \b between positions p-1 and p
WordBoundary(s, p) ==
    LET before == p - 1 >= 1 /\ IsWordChar(s[p - 1])
        after  == p <= Len(s) /\ IsWordChar(s[p])
    IN  before # after

W_NOW      == <<"N","O","W">>
W_ACTIVE   == <<"A","C","T","I","V","E">>
W_UPCOMING == <<"U","P","C","O","M","I","N","G">>
W_EVENTS   == <<"E","V","E","N","T","S">>
W_SERVER   == <<"S","E","R","V","E","R">>
W_TIME     == <<"T","I","M","E">>

\* /NOW\s+ACTIVE/i at position i: the position after the match, 0 if none
NowActiveEnd(s, i) == TwoWordsEnd(s, i, W_NOW, W_ACTIVE)

\* /NOW\s+ACTIVE/i.test(s)
HasNowActive(s) == \E i \in DOMAIN s : NowActiveEnd(s, i) > 0

\* /\b\d{2}:\d{2}:\d{2}\b/ at position i
TimeAt(s, i) ==
    /\ i >= 1
    /\ i + 7 <= Len(s)
    /\ IsDigit(s[i]) /\ IsDigit(s[i + 1]) /\ s[i + 2] = ":"
    /\ IsDigit(s[i + 3]) /\ IsDigit(s[i + 4]) /\ s[i + 5] = ":"
    /\ IsDigit(s[i + 6]) /\ IsDigit(s[i + 7])
    /\ WordBoundary(s, i) /\ WordBoundary(s, i + 8)

\* /\b\d{2}:\d{2}:\d{2}\b/.test(s)
HasTime(s) == \E i \in DOMAIN s : TimeAt(s, i)

\* s.match(/\b\d{2}:\d{2}:\d{2}\b/g): the matches from position i on, in order
RECURSIVE TimeMatches(_, _)
TimeMatches(s, i) ==
    IF i > Len(s) THEN <<>>
    ELSE IF TimeAt(s, i) THEN <<SubSeq(s, i, i + 7)>> \o TimeMatches(s, i + 8)
    ELSE TimeMatches(s, i + 1)

\* /\bUPCOMING\s+EVENTS\b/i.test(s)
HasUpcomingHeader(s) ==
    \E i \in DOMAIN s :
        LET e == TwoWordsEnd(s, i, W_UPCOMING, W_EVENTS)
        IN  e > 0 /\ WordBoundary(s, i) /\ WordBoundary(s, e)

\* /UPCOMING\s+EVENTS/i.test(s)
HasUpcoming(s) == \E i \in DOMAIN s : TwoWordsEnd(s, i, W_UPCOMING, W_EVENTS) > 0

\* /^SERVER\s+TIME/i.test(s)
StartsServerTime(s) == TwoWordsEnd(s, 1, W_SERVER, W_TIME) > 0

\* s.replace(/NOW\s+ACTIVE/ig, ''), from position i on
RECURSIVE RemoveNowActive(_, _)
RemoveNowActive(s, i) ==
    IF i > Len(s) THEN <<>>
    ELSE IF NowActiveEnd(s, i) > 0 THEN RemoveNowActive(s, NowActiveEnd(s, i))
    ELSE <<s[i]>> \o RemoveNowActive(s, i + 1)

\* s.replace(/\b\d{2}:\d{2}:\d{2}\b/g, ''), from position i on
RECURSIVE RemoveTimes(_, _)
RemoveTimes(s, i) ==
    IF i > Len(s) THEN <<>>
    ELSE IF TimeAt(s, i) THEN RemoveTimes(s, i + 8)
    ELSE <<s[i]>> \o RemoveTimes(s, i + 1)

\* s.replace(/\s+/g, ' '), from position i on
RECURSIVE CollapseSpace(_, _)
CollapseSpace(s, i) ==
    IF i > Len(s) THEN <<>>
    ELSE IF s[i] \in JsSpace THEN <<" ">> \o CollapseSpace(s, SkipSpace(s, i))
    ELSE <<s[i]>> \o CollapseSpace(s, i + 1)

\* String.prototype.trim
JsTrim(s) == StripSet(s, JsSpace)

\* s.replace(/^[-•\s:]+|[-•\s:]+$/g, '')
StripEdges(s) == StripSet(s, {"-", BULLET, ":"} \cup JsSpace)

\* name.match(/^(.*?)(\(\d{2}:\d{2}\))$/): the name ends in "(dd:dd)"
ParenMatch(s) ==
    LET n == Len(s)
    IN  /\ n >= 7
        /\ s[n - 6] = "(" /\ IsDigit(s[n - 5]) /\ IsDigit(s[n - 4])
        /\ s[n - 3] = ":" /\ IsDigit(s[n - 2]) /\ IsDigit(s[n - 1])
        /\ s[n] = ")"
        /\ \A k \in 1..(n - 7) : s[k] \notin JsLineTerminators

(***************************************************************************)
(* The DOM harvest run in the page by page.evaluate                        *)
(***************************************************************************)
\* JavaScript null, and Python's None: `elif hhmmss` is false of both and of ""
NULL == <<>>

\* (el.textContent || '').replace(/\s+/g,' ').trim()
NormText(raw) == JsTrim(CollapseSpace(raw, 1))

\* a text that looks like a card: it has NOW ACTIVE or an hh:mm:ss, and is not
\* a container holding the panel's header
IsCard(txt) ==
    /\ txt # <<>>
    /\ HasNowActive(txt) \/ HasTime(txt)
    /\ ~HasUpcomingHeader(txt)

\* the walker loop: the blocks of the elements' texts, in document order
CollectBlocks(texts) ==
    SelectSeq([i \in DOMAIN texts |-> NormText(texts[i])], IsCard)

\* the last hh:mm:ss of the block, if any
LastTime(t) ==
    LET timeMatch == TimeMatches(t, 1)
    IN  IF timeMatch # <<>> THEN timeMatch[Len(timeMatch)] ELSE NULL

\* the clean event name of a block
CleanName(t) ==
    LET stripped == StripEdges(CollapseSpace(RemoveTimes(RemoveNowActive(t, 1), 1), 1))
    IN  IF ParenMatch(stripped)
        THEN JsTrim(SubSeq(stripped, 1, Len(stripped) - 7))
        ELSE stripped

\* the two `continue` tests on the name
IsNoise(name) ==
    \/ HasUpcoming(name) \/ StartsServerTime(name)
    \/ name = <<>> \/ Len(name) < 2

\* a deduplication that compares the names as they are written
NameKey_CaseSensitive(name) == name

\* the key a name is deduplicated by
NameKey(name) == toLowerCase(name)

\* the loop over the blocks from block i on, with the keys seen so far
RECURSIVE ExtractItems(_, _, _)
ExtractItems(blocks, i, seen) ==
    IF i > Len(blocks) THEN <<>>
    ELSE LET t    == blocks[i]
             name == CleanName(t)
             key  == NameKey(name)
         IN  IF IsNoise(name) THEN ExtractItems(blocks, i + 1, seen)
             ELSE IF key \in seen THEN ExtractItems(blocks, i + 1, seen)
             ELSE <<[name |-> name, hhmmss |-> LastTime(t), active |-> HasNowActive(t)]>>
                  \o ExtractItems(blocks, i + 1, seen \cup {key})

\* the header element: some element's text holds UPCOMING EVENTS
HeaderFound(texts) == \E i \in DOMAIN texts : HasUpcomingHeader(texts[i])

\* the script given to page.evaluate, on the texts of the page's elements
HarvestItems(texts) ==
    IF ~HeaderFound(texts) THEN <<>>
    ELSE ExtractItems(CollectBlocks(texts), 1, {})

(***************************************************************************)
(* The Python side                                                         *)
(***************************************************************************)
\* str.strip()
PyStrip(s) == StripSet(s, PySpace)

\* str.split(sep) for a one-character sep
RECURSIVE SplitOn(_, _)
SplitOn(s, sep) ==
    IF \A k \in DOMAIN s : s[k] # sep THEN <<s>>
    ELSE LET p == SetMin({k \in DOMAIN s : s[k] = sep})
         IN  <<SubSeq(s, 1, p - 1)>> \o SplitOn(SubSeq(s, p + 1, Len(s)), sep)

\* int(ds) of a string of decimal digits
RECURSIVE ParseInt(_)
ParseInt(ds) ==
    IF ds = <<>> THEN 0
    ELSE 10 * ParseInt(SubSeq(ds, 1, Len(ds) - 1)) + DigitVal(ds[Len(ds)])

\* f"{n}" of an integer n >= 0
RECURSIVE Decimal(_)
Decimal(n) ==
    IF n < 10 THEN <<DIGITS[n + 1]>>
    ELSE Decimal(n \div 10) \o <<DIGITS[(n % 10) + 1]>>

T_NOW_ACTIVE == <<"N","O","W"," ","A","C","T","I","V","E">>
T_MINUTE     == <<" ","m","i","n","u","t","e">>
T_HOUR       == <<" ","h","o","u","r">>
T_NO_EVENTS  == <<"N","o"," ","e","v","e","n","t","s"," ","f","o","u","n","d",".">>

\* a unit that is always plural
Counted_AlwaysPlural(n, unit) == Decimal(n) \o unit \o <<"s">>

\* f"{n} unit{'s' if n != 1 else ''}"
Counted(n, unit) == Decimal(n) \o unit \o (IF n # 1 THEN <<"s">> ELSE <<>>)

\* a conversion that drops the seconds instead of rounding them
hhmmss_to_text_NoRound(h, m, s) ==
    LET minutes == h * 60 + m
        hours   == minutes \div 60
        mins    == minutes % 60
    IN  IF minutes <= 0 THEN T_NOW_ACTIVE
        ELSE IF minutes < 60 THEN Counted(minutes, T_MINUTE)
        ELSE IF mins = 0 THEN Counted(hours, T_HOUR)
        ELSE Counted(hours, T_HOUR) \o <<" ">> \o Counted(mins, T_MINUTE)

hhmmss_to_text(h, m, s) ==
    LET minutes == h * 60 + m + (IF s >= 30 THEN 1 ELSE 0)
        hours   == minutes \div 60
        mins    == minutes % 60
    IN  IF minutes <= 0 THEN T_NOW_ACTIVE
        ELSE IF minutes < 60 THEN Counted(minutes, T_MINUTE)
        ELSE IF mins = 0 THEN Counted(hours, T_HOUR)
        ELSE Counted(hours, T_HOUR) \o <<" ">> \o Counted(mins, T_MINUTE)

\* h, m, s = map(int, hhmmss.split(":")); hhmmss_to_text(h, m, s)
StatusOfTime(hhmmss) ==
    LET parts == SplitOn(hhmmss, ":")
    IN  hhmmss_to_text(ParseInt(parts[1]), ParseInt(parts[2]), ParseInt(parts[3]))

\* a conversion loop that looks at the time before the active flag
RECURSIVE ConvertItems_TimeFirst(_, _)
ConvertItems_TimeFirst(its, i) ==
    IF i > Len(its) THEN <<>>
    ELSE LET it   == its[i]
             name == PyStrip(it.name)
         IN  IF it.hhmmss # NULL
             THEN <<<<name, StatusOfTime(it.hhmmss)>>>> \o ConvertItems_TimeFirst(its, i + 1)
             ELSE IF it.active
             THEN <<<<name, T_NOW_ACTIVE>>>> \o ConvertItems_TimeFirst(its, i + 1)
             ELSE ConvertItems_TimeFirst(its, i + 1)

\* the conversion loop of scrape_events, from item i on
RECURSIVE ConvertItems(_, _)
ConvertItems(its, i) ==
    IF i > Len(its) THEN <<>>
    ELSE LET it   == its[i]
             name == PyStrip(it.name)
         IN  IF it.active
             THEN <<<<name, T_NOW_ACTIVE>>>> \o ConvertItems(its, i + 1)
             ELSE IF it.hhmmss # NULL
             THEN <<<<name, StatusOfTime(it.hhmmss)>>>> \o ConvertItems(its, i + 1)
             ELSE ConvertItems(its, i + 1)

\* "\n".join(lines)
RECURSIVE JoinLines(_)
JoinLines(lines) ==
    IF lines = <<>> THEN <<>>
    ELSE IF Len(lines) = 1 THEN lines[1]
    ELSE lines[1] \o <<"\n">> \o JoinLines(Tail(lines))

\* f"• {name} : {status}"
EventLine(ev) == <<BULLET, " ">> \o ev[1] \o <<" ", ":", " ">> \o ev[2]

\* a description without the case of no events
build_embed_lines_NoEmpty(evs) ==
    JoinLines([i \in DOMAIN evs |-> EventLine(evs[i])])

build_embed_lines(evs) ==
    IF evs = <<>> THEN T_NO_EVENTS
    ELSE JoinLines([i \in DOMAIN evs |-> EventLine(evs[i])])

TITLE  == "KO4Fun U+2014 Upcoming Events"
FOOTER == "Source: ko4fun.net U+2022 auto-updated by GitHub Actions"

\* the payload post_webhook sends
Payload(description) ==
    [embeds |-> <<[title |-> TITLE, description |-> description,
                   footer |-> [text |-> FOOTER]]>>]

SafetyCap == 10

\* a description of every event, without the cap
CapEvents_NoCap(evs) == evs

\* events[:10]
CapEvents(evs) ==
    SubSeq(evs, 1, IF Len(evs) < SafetyCap THEN Len(evs) ELSE SafetyCap)

(***************************************************************************)
(* The pages and items explored                                            *)
(***************************************************************************)
MaxSegs   == 3
MaxBlocks == 3
MaxLong   == 12
MaxField  == 99

NEL == "U+0085"

T_HEADER   == W_UPCOMING \o <<" ">> \o W_EVENTS
T_TIME_A   == <<"0","0",":","4","1",":","2","9">>
T_TIME_B   == <<"0","1",":","1","6",":","3","0">>
T_HINT     == <<"(","2","2",":","5","5",")">>

\* the pieces element texts are put together from
Segs ==
    { <<"A","b">>, <<"c">>, <<" ">>, <<"-">>, <<NEL>>, <<"\n">>,
      T_NOW_ACTIVE, T_TIME_A, T_HINT, T_HEADER }

\* every text made of at most k pieces
RECURSIVE SegTexts(_)
SegTexts(k) ==
    IF k = 0 THEN {<<>>}
    ELSE LET shorter == SegTexts(k - 1)
         IN  shorter \cup {a \o b : a \in Segs, b \in shorter}

\* cards whose names collide, with and without case, and a one-letter name
CardNames == { <<"A","b">>, <<"A","B">>, <<"C","d">> }
CardTexts ==
    {n \o <<" ">> \o T_NOW_ACTIVE : n \in CardNames}
    \cup {n \o <<" ">> \o T_TIME_A : n \in CardNames}
    \cup { <<"c"," ">> \o T_TIME_B }

\* texts as the schedule page shows them
SampleTexts ==
    { W_SERVER \o <<" ">> \o W_TIME \o <<" ">> \o T_TIME_B,
      <<BULLET," ","R","a","f","f","l","e",":"," ">> \o T_TIME_A \o <<" ">> \o T_NOW_ACTIVE,
      <<"S","a","n","t","a"," ">> \o T_HINT \o <<" ">> \o T_TIME_A \o <<" ">> \o T_TIME_B,
      <<"n","o","w","\t","\n","a","c","t","i","v","e"," ","_","x">>,
      <<"-"," ","F","e","l","a","n","k","o","r"," ","(","H","a","r","d",")"," ","-",":"," ">> \o T_TIME_A,
      <<"x">> \o T_TIME_A \o <<" ","R","a","c","e"," ","0","0",":","0","0",":","1","0">> }

\* the k-th card of a long panel: "Ek 00:kk:00"
LongText(k) ==
    <<"E">> \o Decimal(k) \o <<" ","0","0",":">>
        \o <<DIGITS[(k \div 10) + 1], DIGITS[(k % 10) + 1]>> \o <<":","0","0">>

\* the bodies of the pages: one text of pieces, a few cards, a sample, a long panel
Bodies ==
    {<<t>> : t \in SegTexts(MaxSegs) \cup SampleTexts}
    \cup UNION {[1..n -> CardTexts] : n \in 0..MaxBlocks}
    \cup {[k \in 1..n |-> LongText(k)] : n \in 0..MaxLong}

\* the texts of the page's elements in document order, with or without the header
Pages ==
    {<<T_HEADER>> \o b : b \in Bodies}
    \cup UNION {[1..n -> CardTexts] : n \in 0..1}

\* hh:mm:ss as the page prints it
TwoDigits(n) == <<DIGITS[(n \div 10) + 1], DIGITS[(n % 10) + 1]>>
TimeText(h, m, s) == TwoDigits(h) \o <<":">> \o TwoDigits(m) \o <<":">> \o TwoDigits(s)

\* the seconds the conversion is tried on: both sides of the rounding at 30
SecondsTried == {0, 1, 29, 30, 31, 59, 60, MaxField}

(***************************************************************************)
(* The run of main                                                         *)
(***************************************************************************)
VARIABLES
    page,        \* the texts of the rendered page's elements, in document order
    pc,          \* where the run is
    browserOpen, \* the headless browser is running
    items,       \* what page.evaluate returned
    events,      \* what scrape_events returned
    desc,        \* the description main built
    posts,       \* the payloads of the webhook requests issued
    log,         \* the steps attempted, in order
    failedAt,    \* the step that raised, "" if none
    stdout,      \* what the process wrote to standard output
    stderr,      \* what the interpreter wrote to standard error
    exitCode,    \* -1 while running
    hms,         \* the arguments of a call of hhmmss_to_text
    text         \* what the call returned

vars == <<page, pc, browserOpen, items, events, desc, posts, log, failedAt,
          stdout, stderr, exitCode, hms, text>>

Steps == <<"playwright", "launch", "new_page", "goto", "wait_for", "evaluate",
           "close", "post">>

Init ==
    /\ page \in Pages
    /\ pc = "start"
    /\ browserOpen = FALSE
    /\ items = <<>>
    /\ events = <<>>
    /\ desc = <<>>
    /\ posts = <<>>
    /\ log = <<>>
    /\ failedAt = ""
    /\ stdout = <<>>
    /\ stderr = <<>>
    /\ exitCode = -1
    /\ hms = <<0, 0, 0>>
    /\ text = <<>>

\* an exception leaves scrape_events and main: the playwright context closes
\* the browser on the way out, the interpreter prints the traceback to standard
\* error and the process exits with status 1
Raise(step) ==
    /\ pc' = "failed"
    /\ failedAt' = step
    /\ browserOpen' = FALSE
    /\ stderr' = Append(stderr, "Traceback")
    /\ exitCode' = 1
    /\ UNCHANGED <<page, items, events, desc, posts, stdout, hms, text>>

\* a step that only moves on
Proceed(next) ==
    /\ pc' = next
    /\ UNCHANGED <<page, items, events, desc, posts, failedAt, stdout, stderr,
                   exitCode, hms, text>>

\* async with async_playwright() as pw
StartPlaywright ==
    /\ pc = "start"
    /\ log' = Append(log, "playwright")
    /\ \E ok \in BOOLEAN :
        IF ok THEN Proceed("playwright") /\ UNCHANGED browserOpen
        ELSE Raise("playwright")

\* browser = await pw.chromium.launch(headless=True)
Launch ==
    /\ pc = "playwright"
    /\ log' = Append(log, "launch")
    /\ \E ok \in BOOLEAN :
        IF ok THEN Proceed("launched") /\ browserOpen' = TRUE
        ELSE Raise("launch")

\* page = await browser.new_page()
NewPage ==
    /\ pc = "launched"
    /\ log' = Append(log, "new_page")
    /\ \E ok \in BOOLEAN :
        IF ok THEN Proceed("page") /\ UNCHANGED browserOpen
        ELSE Raise("new_page")

\* a page load that is tried again once when it fails
Goto_Retry ==
    /\ pc = "page"
    /\ log' = Append(log, "goto")
    /\ \E ok \in BOOLEAN :
        IF ok THEN Proceed("loaded") /\ UNCHANGED browserOpen
        ELSE IF log[Len(log)] # "goto" THEN Proceed("page") /\ UNCHANGED browserOpen
        ELSE Raise("goto")

\* await page.goto(EVENT_URL, timeout=60_000)
Goto ==
    /\ pc = "page"
    /\ log' = Append(log, "goto")
    /\ \E ok \in BOOLEAN :
        IF ok THEN Proceed("loaded") /\ UNCHANGED browserOpen
        ELSE Raise("goto")

\* await page.locator("text=/\bUPCOMING\s+EVENTS\b/i").first.wait_for(...):
\* returns once an element with the header text is visible, raises at the timeout
WaitForHeader ==
    /\ pc = "loaded"
    /\ log' = Append(log, "wait_for")
    /\ \E shown \in BOOLEAN :
        IF shown /\ HeaderFound(page)
        THEN Proceed("ready") /\ UNCHANGED browserOpen
        ELSE Raise("wait_for")

\* items = await page.evaluate(...)
Evaluate ==
    /\ pc = "ready"
    /\ log' = Append(log, "evaluate")
    /\ \E ok \in BOOLEAN :
        IF ok
        THEN /\ pc' = "harvested"
             /\ items' = HarvestItems(page)
             /\ UNCHANGED <<page, browserOpen, events, desc, posts, failedAt,
                            stdout, stderr, exitCode, hms, text>>
        ELSE Raise("evaluate")

\* await browser.close()
Close ==
    /\ pc = "harvested"
    /\ log' = Append(log, "close")
    /\ \E ok \in BOOLEAN :
        IF ok THEN Proceed("closed") /\ browserOpen' = FALSE
        ELSE Raise("close")

\* the conversion loop and return of scrape_events
Convert ==
    /\ pc = "closed"
    /\ pc' = "scraped"
    /\ events' = ConvertItems(items, 1)
    /\ UNCHANGED <<page, browserOpen, items, desc, posts, log, failedAt,
                   stdout, stderr, exitCode, hms, text>>

\* desc = build_embed_lines(events[:10])
BuildDescription ==
    /\ pc = "scraped"
    /\ pc' = "built"
    /\ desc' = build_embed_lines(CapEvents(events))
    /\ UNCHANGED <<page, browserOpen, items, events, posts, log, failedAt,
                   stdout, stderr, exitCode, hms, text>>

\* a webhook request issued as soon as the items are harvested
PostWebhook_BeforeClose ==
    /\ pc = "harvested"
    /\ log' = Append(log, "post")
    /\ posts' = Append(posts, Payload(desc))
    /\ pc' = "done"
    /\ exitCode' = 0
    /\ UNCHANGED <<page, browserOpen, items, events, desc, failedAt,
                   stdout, stderr, hms, text>>

\* a webhook request whose HTTP failure is caught and dropped
PostWebhook_Swallow ==
    /\ pc = "built"
    /\ log' = Append(log, "post")
    /\ posts' = Append(posts, Payload(desc))
    /\ pc' = "done"
    /\ exitCode' = 0
    /\ \E ok \in BOOLEAN : failedAt' = IF ok THEN "" ELSE "post"
    /\ UNCHANGED <<page, browserOpen, items, events, desc, stdout, stderr, hms, text>>

\* post_webhook(WEBHOOK_URL, desc): urlopen raises on an HTTP failure
PostWebhook ==
    /\ pc = "built"
    /\ log' = Append(log, "post")
    /\ posts' = Append(posts, Payload(desc))
    /\ \E ok \in BOOLEAN :
        IF ok
        THEN /\ pc' = "done"
             /\ exitCode' = 0
             /\ UNCHANGED <<page, browserOpen, items, events, desc, failedAt,
                            stdout, stderr, hms, text>>
        ELSE /\ pc' = "failed"
             /\ failedAt' = "post"
             /\ stderr' = Append(stderr, "Traceback")
             /\ exitCode' = 1
             /\ UNCHANGED <<page, browserOpen, items, events, desc, stdout, hms, text>>

Next ==
    \/ StartPlaywright
    \/ Launch
    \/ NewPage
    \/ Goto
    \/ WaitForHeader
    \/ Evaluate
    \/ Close
    \/ Convert
    \/ BuildDescription
    \/ PostWebhook

Spec == Init /\ [][Next]_vars

(***************************************************************************)
(* The status text of one item, on every hh:mm:ss                          *)
(***************************************************************************)
InitText ==
    /\ hms \in (0..MaxField) \X (0..MaxField) \X SecondsTried
    /\ \E timed, active \in BOOLEAN :
        items = <<[name   |-> <<"A","b">>,
                   hhmmss |-> IF timed THEN TimeText(hms[1], hms[2], hms[3]) ELSE NULL,
                   active |-> active]>>
    /\ page = <<>>
    /\ pc = "item"
    /\ browserOpen = FALSE
    /\ events = <<>>
    /\ desc = <<>>
    /\ posts = <<>>
    /\ log = <<>>
    /\ failedAt = ""
    /\ stdout = <<>>
    /\ stderr = <<>>
    /\ exitCode = -1
    /\ text = <<>>

\* hhmmss_to_text(h, m, s)
CallFormat ==
    /\ pc = "item"
    /\ pc' = "formatted"
    /\ text' = hhmmss_to_text(hms[1], hms[2], hms[3])
    /\ UNCHANGED <<page, browserOpen, items, events, desc, posts, log, failedAt,
                   stdout, stderr, exitCode, hms>>

\* the conversion loop of scrape_events on the item
ConvertItem ==
    /\ pc = "item"
    /\ pc' = "converted"
    /\ events' = ConvertItems(items, 1)
    /\ UNCHANGED <<page, browserOpen, items, desc, posts, log, failedAt,
                   stdout, stderr, exitCode, hms, text>>

NextText == CallFormat \/ ConvertItem

SpecText == InitText /\ [][NextText]_vars

(***************************************************************************)
(* Properties                                                              *)
(***************************************************************************)
IsPrefix(a, b) == Len(a) <= Len(b) /\ SubSeq(b, 1, Len(a)) = a

Attempted(step) == \E i \in DOMAIN log : log[i] = step

\* the run is over
Ended == pc \in {"done", "failed"}

\* scrape_events has returned
Scraped == pc \in {"scraped", "built", "done"} \/ failedAt = "post"

\* main has built the description
Built == pc \in {"built", "done"} \/ failedAt = "post"

IsNumber(tok) == tok # <<>> /\ \A k \in DOMAIN tok : IsDigit(tok[k])

Words(status) == SplitOn(status, " ")

L_MINUTE  == <<"m","i","n","u","t","e">>
L_MINUTES == <<"m","i","n","u","t","e","s">>
L_HOUR    == <<"h","o","u","r">>
L_HOURS   == <<"h","o","u","r","s">>

\* "• name : status"
BulletLine(name, status) == <<BULLET, " ">> \o name \o <<" ", ":", " ">> \o status

\* the lines of a description that list an event
ListedLines(d) == IF d = T_NO_EVENTS THEN <<>> ELSE SplitOn(d, "\n")

(* C1, as stated: the steps of a run are, in this order and each at most once,
   launch a headless browser, await page load, await a fixed settle delay,
   extract, close the browser, post; no POST while the browser is open or
   before the extraction has finished. *)
C1_AsStated ==
    LET taken == SelectSeq(log, LAMBDA st : st \notin {"playwright", "new_page"})
    IN  /\ IsPrefix(taken, <<"launch", "goto", "settle_delay", "evaluate", "close", "post">>)
        /\ posts # <<>> => ~browserOpen /\ Attempted("evaluate")

(* C1, amended: the steps of a run are, in this order and each at most once,
   start playwright, launch the browser, open a page, await page load, await
   the UPCOMING EVENTS header (a wait that ends when the header shows or
   raises at its timeout, not a fixed delay), extract, close the browser, post;
   no POST is issued while the browser is open or before the extraction and
   the close have finished, and at most one POST is issued. *)
C1_StepOrder ==
    /\ IsPrefix(log, Steps)
    /\ Len(posts) <= 1
    /\ posts # <<>> =>
        /\ ~browserOpen
        /\ Attempted("evaluate") /\ Attempted("close")
        /\ log[Len(log)] = "post"

C1_Witness == pc = "done" /\ log = Steps /\ Len(posts) = 1 /\ ~browserOpen

(* C2: a failure in any step aborts the run: the failed step was attempted
   once and is the last step attempted, no step after it runs (the failed run
   can take no further step), and a run whose scrape failed made no POST. *)
C2_AbortOnFailure ==
    pc = "failed" =>
        /\ \E n \in DOMAIN Steps : log = SubSeq(Steps, 1, n) /\ failedAt = Steps[n]
        /\ failedAt # "post" => posts = <<>>
        /\ ~ENABLED Next

C2_Witness == pc = "failed" /\ failedAt = "wait_for" /\ HeaderFound(page) /\ posts = <<>>

\* a page from which no event can be extracted
NoEventExtracted == ConvertItems(HarvestItems(page), 1) = <<>>

(* C3, as stated: a run that meets an HTTP failure of the webhook request or a
   page from which no event can be extracted logs the error to standard output
   and ends failed, never successful. *)
C3_AsStated ==
    Ended /\ (failedAt = "post" \/ NoEventExtracted) =>
        pc = "failed" /\ exitCode # 0 /\ stdout # <<>>

(* C3, amended: an HTTP failure of the webhook request, or a page that never
   shows the UPCOMING EVENTS header, ends the run failed (exit status 1) through
   an unhandled exception and never successful; the program writes nothing to
   standard output, the traceback goes to standard error; a page that shows the
   header and yields no event is no error: the description is "No events found."
   and a successful run has exit status 0. *)
C3_Errors ==
    /\ stdout = <<>>
    /\ failedAt # "" => pc = "failed"
    /\ pc = "failed" => exitCode = 1 /\ stderr # <<>> /\ failedAt # ""
    /\ pc = "done" => exitCode = 0 /\ stderr = <<>> /\ HeaderFound(page)
    /\ pc = "done" /\ events = <<>> => desc = T_NO_EVENTS

C3_Witness == pc = "failed" /\ failedAt = "post" /\ exitCode = 1 /\ Len(posts) = 1

(* C4, as stated: every status_text returned is 'NOW ACTIVE' or of the form
   'X minutes' or 'H hours M minutes'. *)
C4_AsStated ==
    \A i \in DOMAIN events :
        LET w == Words(events[i][2])
        IN  \/ events[i][2] = T_NOW_ACTIVE
            \/ Len(w) = 2 /\ IsNumber(w[1]) /\ w[2] = L_MINUTES
            \/ Len(w) = 4 /\ IsNumber(w[1]) /\ w[2] = L_HOURS
                          /\ IsNumber(w[3]) /\ w[4] = L_MINUTES

(* C4, amended: every status_text returned is 'NOW ACTIVE' or of the form
   'X minute(s)', 'H hour(s)' or 'H hour(s) M minute(s)', a unit being singular
   exactly when its number is 1, for every hh:mm:ss and active flag. *)
C4_StatusForms ==
    \A i \in DOMAIN events :
        LET w == Words(events[i][2])
            unit(n, one, many) == IF ParseInt(n) = 1 THEN one ELSE many
        IN  \/ events[i][2] = T_NOW_ACTIVE
            \/ Len(w) = 2 /\ IsNumber(w[1]) /\ w[2] = unit(w[1], L_MINUTE, L_MINUTES)
            \/ Len(w) = 2 /\ IsNumber(w[1]) /\ w[2] = unit(w[1], L_HOUR, L_HOURS)
            \/ Len(w) = 4 /\ IsNumber(w[1]) /\ w[2] = unit(w[1], L_HOUR, L_HOURS)
                          /\ IsNumber(w[3]) /\ w[4] = unit(w[3], L_MINUTE, L_MINUTES)

C4_Witness ==
    /\ pc = "converted" /\ Len(events) = 1 /\ ~items[1].active
    /\ Words(events[1][2]) = << <<"1">>, L_HOUR, <<"1">>, L_MINUTE >>

(* C5: every tuple returned by scrape_events has a name of at least one
   character after the Python-side strip, and comes from an item that has a
   NOW ACTIVE marker or an hh:mm:ss time. *)
C5_AsStated ==
    Scraped =>
        /\ \A i \in DOMAIN events : Len(events[i][1]) >= 1
        /\ Len(events) = Cardinality({k \in DOMAIN items :
                                        items[k].active \/ items[k].hhmmss # NULL})

(* C6: the body posted is a single embed with the fixed title and footer whose
   description is, for a non-empty event list, exactly one line
   "• name : status" per event in the order of the events, and for an empty
   event list exactly "No events found.". *)
C6_Embed ==
    \A p \in DOMAIN posts :
        LET body == posts[p]
            d    == body.embeds[1].description
            evs  == SubSeq(events, 1, IF Len(events) < 10 THEN Len(events) ELSE 10)
            ls   == SplitOn(d, "\n")
        IN  /\ DOMAIN body = {"embeds"}
            /\ Len(body.embeds) = 1
            /\ body.embeds[1].title = TITLE
            /\ body.embeds[1].footer = [text |-> FOOTER]
            /\ IF evs = <<>> THEN d = T_NO_EVENTS
               ELSE /\ Len(ls) = Len(evs)
                    /\ \A i \in DOMAIN evs : ls[i] = BulletLine(evs[i][1], evs[i][2])

C6_Witness ==
    /\ pc = "done" /\ Len(events) >= 2
    /\ Len(SplitOn(posts[1].embeds[1].description, "\n")) = Len(events)

(* C7: for a scrape result of n events the description holds exactly
   min(n, 10) event lines, those of the first min(n, 10) events in their order;
   the events from the 11th on are not in it. *)
C7_SafetyCap ==
    Built =>
        LET ls == ListedLines(desc)
            n  == Len(events)
        IN  /\ Len(ls) = IF n < 10 THEN n ELSE 10
            /\ \A i \in DOMAIN ls : ls[i] = BulletLine(events[i][1], events[i][2])

C7_Witness == pc = "done" /\ Len(events) > 10 /\ Len(ListedLines(desc)) = 10

(* C8: the harvested items are deduplicated by name without regard to case,
   in display order: no two items have names equal after lower-casing, and the
   items are those of the blocks that are the first to give their name, in the
   order of the blocks. *)
C8_Dedup ==
    pc = "harvested" =>
        LET blocks   == CollectBlocks(page)
            named(k) == ~IsNoise(CleanName(blocks[k]))
            lower(k) == toLowerCase(CleanName(blocks[k]))
            firsts   == {k \in DOMAIN blocks :
                           named(k) /\ \A j \in 1..(k - 1) : named(j) => lower(j) # lower(k)}
            nth(i)   == CHOOSE k \in firsts : Cardinality({j \in firsts : j <= k}) = i
        IN  /\ \A i, j \in DOMAIN items :
                i # j => toLowerCase(items[i].name) # toLowerCase(items[j].name)
            /\ Len(items) = Cardinality(firsts)
            /\ \A i \in DOMAIN items :
                /\ items[i].name = CleanName(blocks[nth(i)])
                /\ items[i].hhmmss = LastTime(blocks[nth(i)])
                /\ items[i].active = HasNowActive(blocks[nth(i)])

C8_Witness ==
    /\ pc = "harvested" /\ Len(items) = 2 /\ Len(CollectBlocks(page)) = 3
    /\ CleanName(CollectBlocks(page)[1]) # CleanName(CollectBlocks(page)[2])
    /\ toLowerCase(CleanName(CollectBlocks(page)[1]))
         = toLowerCase(CleanName(CollectBlocks(page)[2]))
    /\ items[1].hhmmss # LastTime(CollectBlocks(page)[2])

(* C9: with T = 60*h + m + (1 if s >= 30 else 0), hhmmss_to_text(h, m, s) is
   'NOW ACTIVE' exactly when T = 0 (h = 0, m = 0 and s < 30), 'T minute(s)'
   when 1 <= T < 60, and otherwise the hours T div 60 followed by the minutes
   T mod 60, the minutes left out when 0 and always below 60, each unit
   singular exactly when its number is 1. *)
C9_Format ==
    pc = "formatted" =>
        LET h == hms[1]
            m == hms[2]
            s == hms[3]
            T == 60 * h + m + (IF s >= 30 THEN 1 ELSE 0)
            w == Words(text)
            plain(n) == IsNumber(n) /\ (Len(n) = 1 \/ n[1] # "0")
        IN  /\ text = T_NOW_ACTIVE <=> T = 0
            /\ T = 0 <=> h = 0 /\ m = 0 /\ s < 30
            /\ T >= 1 /\ T < 60 =>
                /\ Len(w) = 2 /\ plain(w[1]) /\ ParseInt(w[1]) = T
                /\ w[2] = IF T = 1 THEN L_MINUTE ELSE L_MINUTES
            /\ T >= 60 /\ T % 60 = 0 =>
                /\ Len(w) = 2 /\ plain(w[1]) /\ ParseInt(w[1]) = T \div 60
                /\ w[2] = IF T \div 60 = 1 THEN L_HOUR ELSE L_HOURS
            /\ T >= 60 /\ T % 60 # 0 =>
                /\ Len(w) = 4 /\ plain(w[1]) /\ ParseInt(w[1]) = T \div 60
                /\ w[2] = IF T \div 60 = 1 THEN L_HOUR ELSE L_HOURS
                /\ plain(w[3]) /\ ParseInt(w[3]) = T % 60 /\ ParseInt(w[3]) < 60
                /\ w[4] = IF T % 60 = 1 THEN L_MINUTE ELSE L_MINUTES

C9_Witness ==
    /\ pc = "formatted" /\ hms = <<0, 75, 30>>
    /\ Words(text) = << <<"1">>, L_HOUR, <<"1","6">>, L_MINUTES >>

(* C10: a run that ends successfully has issued exactly one webhook POST, also
   when the scrape returned no event (it posts "No events found."); an item
   flagged active is reported as NOW ACTIVE even when it carries an hh:mm:ss,
   so a countdown text is only ever that of an item that is not active. *)
C10_OnePost ==
    /\ pc = "done" =>
        /\ Len(posts) = 1
        /\ events = <<>> => posts[1].embeds[1].description = T_NO_EVENTS
    /\ Scraped =>
        /\ Len(events) = Len(items)
        /\ \A i \in DOMAIN items :
            /\ items[i].active => events[i][2] = T_NOW_ACTIVE
            /\ events[i][2] # T_NOW_ACTIVE => ~items[i].active /\ items[i].hhmmss # NULL

C10_Witness ==
    /\ pc = "done" /\ Len(posts) = 1
    /\ \E i \in DOMAIN items :
        items[i].active /\ items[i].hhmmss # NULL /\ events[i][2] = T_NOW_ACTIVE

====
